---- MODULE Spec2Model ----
(***************************************************************************)
(* A model of the execution orchestration of agentic_executor:             *)
(*   planner.py   PlanStep, ExecutionPlan, TaskPlanner.replan_on_failure   *)
(*   executor.py  AgenticExecutor.execute / _execute_step, edit_file       *)
(*   tools.py     ToolRegistry.execute (as the source of dispatch results) *)
(*                FileReadTool and FileWriteTool (for edit_file)           *)
(*   sandbox.py   CodeSandbox: scope, execute, execute_file                *)
(*                                                                         *)
(* Representation.                                                         *)
(*  - A step id "step_k" is the number k (add_step formats len(steps)+1).  *)
(*  - A string is the sequence of its words; lower() maps each word, and   *)
(*    the `in` test is a search for a contiguous run of words.             *)
(*  - An Optional value is None (the empty tuple) or Some(x) (a 1-tuple).  *)
(*  - depends_on is the set of the ids in the list: get_ready_steps only   *)
(*    asks whether every listed id is met.                                 *)
(*  - A list of step objects (ready_steps) is the sequence of their        *)
(*    positions in plan.steps; the step objects live in plan only.         *)
(***************************************************************************)
EXTENDS Integers, Sequences, FiniteSets, TLC

VARIABLES
    plan,            \* ExecutionPlan.steps: sequence of PlanStep records
    max_steps,       \* AgenticExecutor.max_steps
    iteration,       \* execute: local `iteration`
    pc,              \* position of execute: "loop", "for", "update", "done", "raised"; "idle" outside execute
    ready_steps,     \* execute: local `ready_steps` of the current pass
    ri,              \* execute: position of the for loop in ready_steps (1-based)
    exec_step,       \* execute: local `exec_step` (None between dispatches)
    steps_executed,  \* execute: local `steps_executed`
    result,          \* the ExecutionResult returned (None until execute returns)
    tool_runs,       \* the number of Tool.execute calls made by ToolRegistry.execute
    passes,          \* execute: the number of times the for loop over ready_steps was entered
    on_step_complete, \* AgenticExecutor.on_step_complete: whether a callback is installed
    notified,        \* what the callback received, call after call, and the status of the plan step then
    sandbox,         \* the CodeSandbox object: config, _temp_dir, _status
    fs,              \* the file system: directories that exist, script files written, mkdtemp calls
    procs,           \* the number of processes spawned by subprocess.run
    sb_pc,           \* the caller's position: "new", "scoped" (inside with), "released"
    last,            \* the last execute / execute_file call and the SandboxResult it returned
    disk,            \* the files edit_file works on: what each path is and holds
    registry,        \* the ToolRegistry of the executor: tools registered, paths the file tools allow
    edit             \* the last edit_file call and the ExecutionResult it returned

\* the variables of execute, of the sandbox and of edit_file
exvars == <<plan, max_steps, iteration, pc, ready_steps, ri, exec_step, steps_executed, result, tool_runs,
           passes, on_step_complete, notified>>

sbvars == <<sandbox, fs, procs, sb_pc, last>>

edvars == <<disk, registry, edit>>

vars == <<exvars, sbvars, edvars>>

-----------------------------------------------------------------------------
(* Bounds of the model *)

\* number of steps the planner puts in the initial plan
MaxPlanLen == 2
\* largest step ceiling (max_steps) the executor is configured with
MaxCeiling == 8
\* number of tool runs followed when the registry is called directly
MaxRuns == 2

\* number of execute / execute_file calls made on one sandbox
MaxCalls == 2
\* length of the longest stream a process writes
MaxStream == 3
\* number of scratch directories tempfile.mkdtemp hands out
MaxScratch == 2
\* largest wall-clock timeout (timeout_seconds) a sandbox is configured with
MaxTimeout == 2
\* number of edit_file calls made on one executor
MaxEdits == 2

(* Program constants *)

\* PlanStep.max_retries default
DefaultMaxRetries == 2

-----------------------------------------------------------------------------
(* Optional values and strings *)

None == << >>
Some(x) == <<x>>

\* no CodeSandbox exists (AgenticExecutor._sandbox is None), nothing on disk
NoSandbox ==
    /\ sandbox = None
    /\ fs = [dirs |-> {}, scripts |-> {}, made |-> 0]
    /\ procs = 0
    /\ sb_pc = "none"
    /\ last = None

\* execute is not running and no callback is installed
NoCallback ==
    /\ passes = 0
    /\ on_step_complete = FALSE
    /\ notified = << >>

\* edit_file has not been called; no file is looked at
NoEdit ==
    /\ disk = << >>
    /\ registry = None
    /\ edit = None

LowerWord(w) ==
    CASE w = "File" -> "file"
      [] w = "Permission" -> "permission"
      [] w = "Command" -> "command"
      [] w = "Unknown" -> "unknown"
      [] OTHER -> w

\* str.lower()
Lower(s) == [i \in DOMAIN s |-> LowerWord(s[i])]

\* needle in hay
Contains(needle, hay) ==
    \E i \in 0..(Len(hay) - Len(needle)) : SubSeq(hay, i + 1, i + Len(needle)) = needle

\* mutant of StartsWith: no string has the prefix
StartsWith_never(s, prefix) == FALSE

\* str.startswith
StartsWith(s, prefix) ==
    Len(s) >= Len(prefix) /\ SubSeq(s, 1, Len(prefix)) = prefix

-----------------------------------------------------------------------------
(* sandbox.py: SandboxConfig, SandboxResult, CodeSandbox *)

(* Representation.                                                         *)
(*  - A text (code, stream, message) is a sequence of pieces.  A piece is  *)
(*    one character, or a literal of the source, or a denylist marker,     *)
(*    with the length PieceLen gives it; len() is StrLen.  The streams of  *)
(*    a process are made of characters only, so slicing them is SubSeq.    *)
(*  - A directory is a number: 0 is the caller's working_dir, n > 0 is the *)
(*    directory the n-th tempfile.mkdtemp call returned (always fresh).    *)
(*  - Times are counted in ticks of the clock; 0 is no time at all.        *)

PieceLen(p) ==
    CASE p = "\n[OUTPUT TRUNCATED]" -> 19
      [] p = "Execution timed out after " -> 26
      [] p = "Blocked import detected: " -> 25
      [] p = "Failed to write script: " -> 24
      [] p = "File not found: " -> 16
      [] p = "[Errno 2] No such file or directory" -> 35
      [] p = "[Errno 21] Is a directory" -> 25
      [] p = "'int' object has no attribute 'get'" -> 35
      [] p = "subprocess" -> 10
      [] p = "socket" -> 6
      [] p = "system" -> 6
      [] p = "import" -> 6
      [] p = "print" -> 5
      [] p = "os" -> 2
      [] p = "32" -> 2
      [] OTHER -> 1

\* len(text)
RECURSIVE StrLen(_)
StrLen(text) == IF text = << >> THEN 0 ELSE PieceLen(Head(text)) + StrLen(Tail(text))

\* str(n) for the small numbers of the model
NumStr(n) == CASE n = 0 -> "0" [] n = 1 -> "1" [] n = 2 -> "2" [] n = 3 -> "3" [] OTHER -> "9"

SandboxStatus == {"ready", "running", "completed", "timeout", "error", "memory_exceeded"}

\* max_memory_mb of a SandboxConfig() made without arguments
DefaultMaxMemoryMb == 256

\* SandboxConfig; allowed_imports is never read by CodeSandbox
SandboxConfig(timeout_seconds, max_memory_mb, max_output_bytes, blocked_imports, working_dir, cleanup_on_exit) ==
    [timeout_seconds |-> timeout_seconds, max_memory_mb |-> max_memory_mb,
     max_output_bytes |-> max_output_bytes,
     blocked_imports |-> blocked_imports, working_dir |-> working_dir,
     cleanup_on_exit |-> cleanup_on_exit]

\* SandboxResult with execution_time and memory_used_mb left at their
\* default 0.0
SandboxResult(status, stdout, stderr) ==
    [status |-> status, stdout |-> stdout, stderr |-> stderr, execution_time |-> 0,
     memory_used_mb |-> 0]

\* mutant of TimedResult: a memory figure is made up from the time
TimedResult_measured(status, stdout, stderr, execution_time) ==
    [status |-> status, stdout |-> stdout, stderr |-> stderr, execution_time |-> execution_time,
     memory_used_mb |-> execution_time + 1]

\* SandboxResult with execution_time given
TimedResult(status, stdout, stderr, execution_time) ==
    [status |-> status, stdout |-> stdout, stderr |-> stderr, execution_time |-> execution_time,
     memory_used_mb |-> 0]

\* CodeSandbox.__init__
CodeSandbox(config) == [config |-> config, temp_dir |-> None, status |-> "ready"]

\* os.makedirs(d, exist_ok=True)
makedirs(files, d) == [files EXCEPT !.dirs = @ \cup {d}]

\* tempfile.mkdtemp: a directory that did not exist before
mkdtemp(files) == [files EXCEPT !.dirs = @ \cup {files.made + 1}, !.made = @ + 1]

\* mutant of rmtree: nothing is removed
rmtree_kept(files, d) == files

\* shutil.rmtree(d, ignore_errors=True): the directory goes with what is in it
rmtree(files, d) == [files EXCEPT !.dirs = @ \ {d}, !.scripts = @ \ {d}]

\* _setup: returns the sandbox and the file system afterwards
setup(sb, files) ==
    IF sb.config.working_dir # None
    THEN [sb |-> [sb EXCEPT !.temp_dir = sb.config.working_dir],
          files |-> makedirs(files, sb.config.working_dir[1])]
    ELSE [sb |-> [sb EXCEPT !.temp_dir = Some(files.made + 1)],
          files |-> mkdtemp(files)]

\* mutant of cleanup: the directory is removed whoever created it
cleanup_any(sb, files) ==
    IF sb.config.cleanup_on_exit /\ sb.temp_dir # None
    THEN rmtree(files, sb.temp_dir[1])
    ELSE files

\* _cleanup: returns the file system afterwards
cleanup(sb, files) ==
    IF sb.config.cleanup_on_exit /\ sb.temp_dir # None
    THEN IF sb.config.working_dir = None THEN rmtree(files, sb.temp_dir[1]) ELSE files
    ELSE files

\* mutant of check_imports: a marker is found only at the start of the code
RECURSIVE check_imports_prefix(_, _)
check_imports_prefix(blocked_imports, code) ==
    IF blocked_imports = << >> THEN None
    ELSE IF Len(code) >= Len(Head(blocked_imports))
            /\ SubSeq(code, 1, Len(Head(blocked_imports))) = Head(blocked_imports)
         THEN Some(<<"Blocked import detected: ">> \o Head(blocked_imports))
         ELSE check_imports_prefix(Tail(blocked_imports), code)

\* _check_imports: the message for the first marker of the list found in the
\* code, None when there is none
RECURSIVE check_imports(_, _)
check_imports(blocked_imports, code) ==
    IF blocked_imports = << >> THEN None
    ELSE IF Contains(Head(blocked_imports), code)
         THEN Some(<<"Blocked import detected: ">> \o Head(blocked_imports))
         ELSE check_imports(Tail(blocked_imports), code)

TruncationMarker == <<"\n[OUTPUT TRUNCATED]">>

\* mutant of truncate: the marker is left out
truncate_bare(stream, max_output_bytes) ==
    IF StrLen(stream) > max_output_bytes THEN SubSeq(stream, 1, max_output_bytes) ELSE stream

\* lines 221-224: a stream over the ceiling is cut and marked
truncate(stream, max_output_bytes) ==
    IF StrLen(stream) > max_output_bytes
    THEN SubSeq(stream, 1, max_output_bytes) \o TruncationMarker
    ELSE stream

\* line 226
classify(returncode) == IF returncode = 0 THEN "completed" ELSE "error"

\* mutant of timeout_result: the time is left at its default
timeout_result_untimed(config) ==
    SandboxResult("timeout", << >>,
                  <<"Execution timed out after ", NumStr(config.timeout_seconds), "s">>)

\* lines 236-241
timeout_result(config) ==
    TimedResult("timeout", << >>,
                <<"Execution timed out after ", NumStr(config.timeout_seconds), "s">>,
                config.timeout_seconds)

\* What the environment does during one execute call:
\*   write_ok   whether open(script_path, "w") and the write succeed when the
\*              directory exists (they fail when it does not);
\*   run        what subprocess.run does: "oserror" (the process cannot be
\*              started), "timeout" (TimeoutExpired), "exit" (it returns);
\*   returncode, out   the exit code, for "exit", and what the process wrote
\*              (until it was killed, for "timeout"):
\*              kind "object" is the JSON object the wrapper prints (fields
\*              stdout, stderr and error, error None for null), kind "raw" is
\*              text that is not JSON (stdout and stderr are the raw streams),
\*              kind "value" is text that is JSON but not an object;
\*   elapsed    time.time() - start_time at the return or the exception.
\* lines 158-248: returns the sandbox, the file system and the process count
\* afterwards, the result, and whether a process was spawned.
execute(sb0, files0, nprocs, code, env) ==
    LET sb1 == [sb0 EXCEPT !.status = "running"]
        import_error == check_imports(sb1.config.blocked_imports, code)
    IN  IF import_error # None
        THEN [sb |-> sb1, files |-> files0, procs |-> nprocs, spawned |-> FALSE,
              result |-> SandboxResult("error", << >>, import_error[1])]
        ELSE
        LET st == IF sb1.temp_dir = None THEN setup(sb1, files0)
                  ELSE [sb |-> sb1, files |-> files0]
            sb2 == st.sb
            dir == sb2.temp_dir[1]
        IN  IF ~(dir \in st.files.dirs /\ env.write_ok)
            THEN [sb |-> sb2, files |-> st.files, procs |-> nprocs, spawned |-> FALSE,
                  result |-> SandboxResult("error", << >>,
                       <<"Failed to write script: ", "[Errno 2] No such file or directory">>)]
            ELSE
            LET files2 == [st.files EXCEPT !.scripts = @ \cup {dir}]
            IN  CASE env.run = "oserror" ->
                     [sb |-> sb2, files |-> files2, procs |-> nprocs, spawned |-> FALSE,
                      result |-> TimedResult("error", << >>,
                           <<"[Errno 2] No such file or directory">>,
                           env.elapsed)]
                  [] env.run = "timeout" ->
                     [sb |-> sb2, files |-> files2, procs |-> nprocs + 1, spawned |-> TRUE,
                      result |-> timeout_result(sb2.config)]
                  [] env.run = "exit" /\ env.out.kind = "value" ->
                     [sb |-> sb2, files |-> files2, procs |-> nprocs + 1, spawned |-> TRUE,
                      result |-> TimedResult("error", << >>,
                           <<"'int' object has no attribute 'get'">>, env.elapsed)]
                  [] env.run = "exit" /\ env.out.kind \in {"object", "raw"} ->
                     LET stdout == env.out.stdout
                         stderr == IF env.out.kind = "object"
                                   THEN env.out.stderr \o (IF env.out.error = None THEN << >>
                                                           ELSE env.out.error[1])
                                   ELSE env.out.stderr
                     IN  [sb |-> sb2, files |-> files2, procs |-> nprocs + 1, spawned |-> TRUE,
                          result |-> TimedResult(classify(env.returncode),
                               truncate(stdout, sb2.config.max_output_bytes),
                               truncate(stderr, sb2.config.max_output_bytes),
                               env.elapsed)]

\* mutant of execute_file: FileNotFoundError is left to the general handler
execute_file_general(sb0, files0, nprocs, path, env) ==
    CASE path.kind = "missing" ->
           [sb |-> sb0, files |-> files0, procs |-> nprocs, spawned |-> FALSE,
            result |-> SandboxResult("error", << >>, <<"[Errno 2] No such file or directory">>)]
      [] path.kind = "directory" ->
           [sb |-> sb0, files |-> files0, procs |-> nprocs, spawned |-> FALSE,
            result |-> SandboxResult("error", << >>, <<"[Errno 21] Is a directory">>)]
      [] path.kind = "file" -> execute(sb0, files0, nprocs, path.code, env)

\* What open(file_path, "r") finds: no such path (FileNotFoundError), a
\* directory (IsADirectoryError), or a file with the code in it.
\* lines 250-267
execute_file(sb0, files0, nprocs, path, env) ==
    CASE path.kind = "missing" ->
           [sb |-> sb0, files |-> files0, procs |-> nprocs, spawned |-> FALSE,
            result |-> SandboxResult("error", << >>, <<"File not found: ">> \o path.name)]
      [] path.kind = "directory" ->
           [sb |-> sb0, files |-> files0, procs |-> nprocs, spawned |-> FALSE,
            result |-> SandboxResult("error", << >>, <<"[Errno 21] Is a directory">>)]
      [] path.kind = "file" -> execute(sb0, files0, nprocs, path.code, env)

-----------------------------------------------------------------------------
(* planner.py: StepStatus, PlanStep, ExecutionPlan *)

StepStatus == {"pending", "running", "completed", "failed", "skipped"}

PlanStep(id, tool, params, depends_on) ==
    [id |-> id, tool |-> tool, params |-> params, depends_on |-> depends_on,
     status |-> "pending", result |-> None, error |-> None,
     retry_count |-> 0, max_retries |-> DefaultMaxRetries]

\* mutant of can_retry: the comparison lets the counter reach past the ceiling
can_retry_le(step) == step.retry_count <= step.max_retries

can_retry(step) == step.retry_count < step.max_retries

\* mutant of add_step: the id is the length before the append
add_step_reused_id(steps, tool, params, depends_on) ==
    Append(steps, PlanStep(IF Len(steps) = 0 THEN 1 ELSE Len(steps), tool, params, depends_on))

\* mutant of add_step: the new step is chained to the step before it, if any
add_step_chained(steps, tool, params, depends_on) ==
    Append(steps, PlanStep(Len(steps) + 1, tool, params, depends_on \cup (1..Len(steps) \ 1..(Len(steps) - 1))))

add_step(steps, tool, params, depends_on) ==
    Append(steps, PlanStep(Len(steps) + 1, tool, params, depends_on))

\* mutant of get_step: an id that names no step gets the last step
get_step_or_last(steps, step_id) ==
    LET hits == {i \in DOMAIN steps : steps[i].id = step_id}
    IN  IF hits = {} THEN Len(steps) ELSE CHOOSE i \in hits : \A j \in hits : i <= j

\* position of the first step with this id, 0 for None
get_step(steps, step_id) ==
    LET hits == {i \in DOMAIN steps : steps[i].id = step_id}
    IN  IF hits = {} THEN 0 ELSE CHOOSE i \in hits : \A j \in hits : i <= j

\* mutant of deps_met: an id that names no step counts as met
deps_met_missing_ok(steps, step) ==
    \A dep_id \in step.depends_on :
        LET dep == get_step(steps, dep_id)
        IN  dep = 0 \/ steps[dep].status = "completed"

\* mutant of deps_met: a dependency counts as met once it is no longer Pending
deps_met_started(steps, step) ==
    \A dep_id \in step.depends_on :
        LET dep == get_step(steps, dep_id)
        IN  ~(dep = 0 \/ steps[dep].status = "pending")

\* mutant of deps_met: a Failed dependency counts as met too
deps_met_failed_ok(steps, step) ==
    \A dep_id \in step.depends_on :
        LET dep == get_step(steps, dep_id)
        IN  ~(dep = 0 \/ steps[dep].status \notin {"completed", "failed"})

\* mutant of deps_met: the status test is inverted
deps_met_inverted(steps, step) ==
    \A dep_id \in step.depends_on :
        LET dep == get_step(steps, dep_id)
        IN  ~(dep = 0 \/ steps[dep].status = "completed")

\* the inner loop of get_ready_steps over step.depends_on
deps_met(steps, step) ==
    \A dep_id \in step.depends_on :
        LET dep == get_step(steps, dep_id)
        IN  ~(dep = 0 \/ steps[dep].status # "completed")

RECURSIVE ready_from(_, _)
ready_from(steps, i) ==
    IF i > Len(steps) THEN << >>
    ELSE IF steps[i].status # "pending" THEN ready_from(steps, i + 1)
    ELSE IF deps_met(steps, steps[i]) THEN <<i>> \o ready_from(steps, i + 1)
    ELSE ready_from(steps, i + 1)

\* mutant of get_ready_steps: every Pending step is returned
RECURSIVE pending_from(_, _)
pending_from(steps, i) ==
    IF i > Len(steps) THEN << >>
    ELSE IF steps[i].status = "pending" THEN <<i>> \o pending_from(steps, i + 1)
    ELSE pending_from(steps, i + 1)

ready_all_pending(steps) == pending_from(steps, 1)

\* mutant of get_ready_steps: a Failed step whose dependencies are met is
\* returned again
RECURSIVE unfinished_from(_, _)
unfinished_from(steps, i) ==
    IF i > Len(steps) THEN << >>
    ELSE IF steps[i].status \in {"pending", "failed"} /\ deps_met(steps, steps[i])
         THEN <<i>> \o unfinished_from(steps, i + 1)
         ELSE unfinished_from(steps, i + 1)

ready_with_failed(steps) == unfinished_from(steps, 1)

\* mutant of get_ready_steps: the list holds every ready step twice
ready_repeated(steps) == ready_from(steps, 1) \o ready_from(steps, 1)

get_ready_steps(steps) == ready_from(steps, 1)

\* mutant of is_complete: a Running step counts as done
is_complete_started(steps) ==
    \A i \in DOMAIN steps : steps[i].status \in {"running", "completed", "failed", "skipped"}

is_complete(steps) ==
    \A i \in DOMAIN steps : steps[i].status \in {"completed", "failed", "skipped"}

-----------------------------------------------------------------------------
(* tools.py: ToolStatus, ToolResult, ToolRegistry.execute *)

ToolStatus == {"success", "error", "timeout", "permission_denied"}

ToolResult(status, output, error) == [status |-> status, output |-> output, error |-> error]

\* ToolRegistry.default_registry: the registered tool names
RegisteredTools == {"file_read", "file_write", "shell", "search"}

\* The results a registered tool's execute can return.  The executor reads
\* only result.status, result.output and result.error, so one result stands
\* for each combination it can tell apart:
\*   success; "File not found: p" (tools.py:165); "Permission denied: p"
\*   (tools.py:167); "Command timed out after 30s" (tools.py:311); and a
\*   failure whose error field keeps its default None (ToolResult.error is
\*   Optional[str] = None, tools.py:33).
ToolOutcomes ==
    { ToolResult("success", <<"ok">>, None),
      ToolResult("error", << >>, Some(<<"File", "not", "found">>)),
      ToolResult("permission_denied", << >>, Some(<<"Permission", "denied">>)),
      ToolResult("timeout", << >>, Some(<<"Command", "timed", "out">>)),
      ToolResult("error", << >>, None) }

\* Tool.parameters of the registered tools, in declaration order
Parameters(tool_name) ==
    CASE tool_name = "file_read" ->
           << [name |-> "path", required |-> TRUE], [name |-> "encoding", required |-> FALSE] >>
      [] tool_name = "file_write" ->
           << [name |-> "path", required |-> TRUE], [name |-> "content", required |-> TRUE],
              [name |-> "mode", required |-> FALSE] >>
      [] tool_name = "shell" ->
           << [name |-> "command", required |-> TRUE], [name |-> "timeout", required |-> FALSE] >>
      [] tool_name = "search" ->
           << [name |-> "pattern", required |-> TRUE], [name |-> "file_pattern", required |-> FALSE],
              [name |-> "max_results", required |-> FALSE] >>

\* mutant of validate_params: nothing is required
validate_params_lax(tool_name, params) == None

\* Tool.validate_params: the message for the first required parameter that
\* is missing, None when there is none
validate_params(tool_name, params) ==
    LET ps == Parameters(tool_name)
        missing == {a \in DOMAIN ps : ps[a].required /\ ps[a].name \notin DOMAIN params}
    IN  IF missing = {} THEN None
        ELSE LET first == CHOOSE a \in missing : \A b \in missing : a <= b
             IN  Some(<<"Missing", "required", "parameter", ps[first].name>>)

\* ToolRegistry.execute(tool_name, **kwargs): the set of ways the call can
\* go, each with the result returned and whether control reached line 419
\* (tool.execute was invoked).
registry_execute(tool_name, kwargs) ==
    IF tool_name \notin RegisteredTools
    THEN { [result |-> ToolResult("error", << >>, Some(<<"Unknown", "tool">>)), invoked |-> FALSE] }
    ELSE LET validation_error == validate_params(tool_name, kwargs)
         IN  IF validation_error # None
             THEN { [result |-> ToolResult("error", << >>, validation_error), invoked |-> FALSE] }
             ELSE { [result |-> r, invoked |-> TRUE] : r \in ToolOutcomes }

-----------------------------------------------------------------------------
(* planner.py: TaskPlanner.replan_on_failure *)

\* dict.get(key, default)
GetParam(params, key, default) ==
    IF key \in DOMAIN params THEN params[key] ELSE default

\* path.split("/")[-1]; a path is the sequence of its components
LastComponent(path) == IF Len(path) = 0 THEN << >> ELSE <<path[Len(path)]>>

\* mutant of retry_step: the retry is not counted
retry_step_uncounted(steps, k) == [steps EXCEPT ![k].status = "pending"]

\* mutant of retry_step: the retried step loses its dependencies
retry_step_unblocked(steps, k) ==
    [steps EXCEPT ![k].retry_count = @ + 1, ![k].status = "pending", ![k].depends_on = {}]

\* mutant of retry_step: the retry counters of the other steps are reset
retry_step_resets_others(steps, k) ==
    [i \in DOMAIN steps |->
        IF i = k THEN [steps[i] EXCEPT !.retry_count = @ + 1, !.status = "pending"]
        ELSE [steps[i] EXCEPT !.retry_count = 0]]

\* lines 282-283: failed_step.retry_count += 1; failed_step.status = PENDING
retry_step(steps, k) ==
    [steps EXCEPT ![k].retry_count = @ + 1, ![k].status = "pending"]

\* Returns [steps: the plan's steps afterwards, recovery: the position of the
\* step returned (0 for None), raised: whether the call raised].
\* error is the Optional[str] the executor passes; error.lower() on None
\* raises AttributeError.
\* mutant of replan_on_failure: a search step is appended for a "not found"
\* error of any tool
replan_on_failure_any_tool(steps, k, error) ==
    LET failed_step == steps[k] IN
    IF can_retry(failed_step)
    THEN [steps |-> retry_step(steps, k), recovery |-> k, raised |-> FALSE]
    ELSE IF error = None
    THEN [steps |-> steps, recovery |-> 0, raised |-> TRUE]
    ELSE IF Contains(<<"not", "found">>, Lower(error[1]))
    THEN LET filename == LastComponent(GetParam(failed_step.params, "path", << >>))
         IN  [steps |-> add_step(steps, "search",
                                 [pattern |-> filename, file_pattern |-> <<"*">>], {}),
              recovery |-> Len(steps) + 1, raised |-> FALSE]
    ELSE IF /\ Contains(<<"permission", "denied">>, Lower(error[1]))
            /\ failed_step.tool = "shell"
            /\ ~StartsWith(GetParam(failed_step.params, "command", << >>), <<"sudo">>)
    THEN LET cmd == GetParam(failed_step.params, "command", << >>)
         IN  [steps |-> add_step(steps, "shell", [command |-> <<"sudo">> \o cmd], {}),
              recovery |-> Len(steps) + 1, raised |-> FALSE]
    ELSE [steps |-> steps, recovery |-> 0, raised |-> FALSE]

replan_on_failure(steps, k, error) ==
    LET failed_step == steps[k] IN
    IF can_retry(failed_step)
    THEN [steps |-> retry_step(steps, k), recovery |-> k, raised |-> FALSE]
    ELSE IF error = None
    THEN [steps |-> steps, recovery |-> 0, raised |-> TRUE]
    ELSE IF Contains(<<"not", "found">>, Lower(error[1])) /\ failed_step.tool = "file_read"
    THEN LET filename == LastComponent(GetParam(failed_step.params, "path", << >>))
         IN  [steps |-> add_step(steps, "search",
                                 [pattern |-> filename, file_pattern |-> <<"*">>], {}),
              recovery |-> Len(steps) + 1, raised |-> FALSE]
    ELSE IF /\ Contains(<<"permission", "denied">>, Lower(error[1]))
            /\ failed_step.tool = "shell"
            /\ ~StartsWith(GetParam(failed_step.params, "command", << >>), <<"sudo">>)
    THEN LET cmd == GetParam(failed_step.params, "command", << >>)
         IN  [steps |-> add_step(steps, "shell", [command |-> <<"sudo">> \o cmd], {}),
              recovery |-> Len(steps) + 1, raised |-> FALSE]
    ELSE [steps |-> steps, recovery |-> 0, raised |-> FALSE]

-----------------------------------------------------------------------------
(* executor.py: AgenticExecutor.execute *)

\* mutant of overall_success: a plan whose steps are all terminal is a success
success_if_complete(steps) == is_complete(steps)

\* lines 179-183
overall_success(steps) == \A i \in DOMAIN steps : steps[i].status = "completed"

\* lines 186-191: the error of the first failed step, None when there is none
RECURSIVE first_error_from(_, _)
first_error_from(steps, i) ==
    IF i > Len(steps) THEN None
    ELSE IF steps[i].status = "failed" THEN steps[i].error
    ELSE first_error_from(steps, i + 1)

first_error(steps, success) == IF success THEN None ELSE first_error_from(steps, 1)

\* mutant of ExecutionResult: the count reported is one per step dispatched
ExecutionResult_per_step(steps, executed, iter) ==
    LET success == overall_success(steps)
    IN  [success |-> success, error |-> first_error(steps, success),
         steps |-> executed, iterations |-> Len(executed)]

\* lines 193-200
ExecutionResult(steps, executed, iter) ==
    LET success == overall_success(steps)
    IN  [success |-> success, error |-> first_error(steps, success),
         steps |-> executed, iterations |-> iter]

\* What the model keeps of an ExecutionStep once it is in steps_executed:
\* execute only appends to that list and returns it, and never reads the
\* records back, so the payload of the result is dropped and its status kept
\* as success or not.  The error text is kept only for a failed dispatch made
\* with the retries used up (retries = max_retries, the PlanStep default),
\* whose failure is final.
Logged(e) ==
    LET ok == e.result # None /\ e.result[1].status = "success"
    IN  [step_id |-> e.step_id, retries |-> e.retries, ok |-> ok,
         error |-> IF ~ok /\ e.result # None /\ e.retries = DefaultMaxRetries
                   THEN e.result[1].error ELSE None]

\* mutant of notify: the callback is called for failed dispatches only
notify_failures(installed, received, record, status) ==
    IF installed /\ ~record.ok
    THEN Append(received, [exec_step |-> record, status |-> status])
    ELSE received

\* lines 162-164: the callback, if one is installed, is called with the
\* record just appended; it sees the plan step with the status it has then
notify(installed, received, record, status) ==
    IF installed
    THEN Append(received, [exec_step |-> record, status |-> status])
    ELSE received

\* mutant of loop_condition: one pass more than the ceiling
loop_condition_le(steps, iter, ceiling) == ~is_complete(steps) /\ iter <= ceiling

\* line 148: the while condition
loop_condition(steps, iter, ceiling) == ~is_complete(steps) /\ iter < ceiling

\* The while condition is false: fall through to lines 179-200 and return.
LoopExit ==
    /\ pc = "loop"
    /\ ~loop_condition(plan, iteration, max_steps)
    /\ result' = Some(ExecutionResult(plan, steps_executed, iteration))
    /\ pc' = "done"
    /\ UNCHANGED <<plan, max_steps, iteration, ready_steps, ri, exec_step, steps_executed, tool_runs, sbvars, edvars,
                 passes, on_step_complete, notified>>

\* Lines 149-156 with no ready step: break, then lines 179-200.
Stall ==
    /\ pc = "loop"
    /\ loop_condition(plan, iteration, max_steps)
    /\ get_ready_steps(plan) = << >>
    /\ iteration' = iteration + 1
    /\ ready_steps' = << >>
    /\ result' = Some(ExecutionResult(plan, steps_executed, iteration + 1))
    /\ pc' = "done"
    /\ UNCHANGED <<plan, max_steps, ri, exec_step, steps_executed, tool_runs, sbvars, edvars,
                 passes, on_step_complete, notified>>

\* Lines 149-158: a pass with ready steps starts.
StartPass ==
    /\ pc = "loop"
    /\ loop_condition(plan, iteration, max_steps)
    /\ get_ready_steps(plan) # << >>
    /\ iteration' = iteration + 1
    /\ passes' = passes + 1
    /\ ready_steps' = get_ready_steps(plan)
    /\ ri' = 1
    /\ pc' = "for"
    /\ UNCHANGED <<plan, max_steps, exec_step, steps_executed, result, tool_runs, sbvars, edvars,
                 on_step_complete, notified>>

\* Lines 159-164 and _execute_step (202-220): the next ready step is set
\* Running and dispatched to the registry, the record is appended to
\* steps_executed and handed to the callback, if one is installed.
ExecuteStep ==
    /\ pc = "for"
    /\ LET k == ready_steps[ri]
           plan_step == plan[k]
       IN  \E d \in registry_execute(plan_step.tool, plan_step.params) :
             /\ plan' = [plan EXCEPT ![k].status = "running"]
             /\ exec_step' = Some([step_id |-> plan_step.id, tool |-> plan_step.tool,
                                   result |-> Some(d.result), retries |-> plan_step.retry_count])
             /\ tool_runs' = tool_runs + (IF d.invoked THEN 1 ELSE 0)
    /\ steps_executed' = Append(steps_executed, Logged(exec_step'[1]))
    /\ notified' = notify(on_step_complete, notified, Logged(exec_step'[1]),
                          plan'[ready_steps[ri]].status)
    /\ pc' = "update"
    /\ UNCHANGED <<max_steps, iteration, ready_steps, ri, result, sbvars, edvars,
                 passes, on_step_complete>>

\* Lines 166-177: the plan step is updated from the dispatch result; the for
\* loop moves on, and after the last ready step control is back at line 148.
UpdateStep ==
    /\ pc = "update"
    /\ LET k == ready_steps[ri]
           res == exec_step[1].result
           next_pc == IF ri = Len(ready_steps) THEN "loop" ELSE "for"
       IN  IF res # None /\ res[1].status = "success"
           THEN /\ plan' = [plan EXCEPT ![k].status = "completed",
                                        ![k].result = Some(res[1].output)]
                /\ pc' = next_pc
           ELSE LET error_msg == IF res # None THEN res[1].error
                                 ELSE Some(<<"Unknown", "error">>)
                    re == replan_on_failure(plan, k, error_msg)
                IN  IF re.raised
                    THEN /\ plan' = re.steps
                         /\ pc' = "raised"
                    ELSE /\ plan' = IF re.recovery = 0
                                    THEN [re.steps EXCEPT ![k].status = "failed",
                                                          ![k].error = error_msg]
                                    ELSE re.steps
                         /\ pc' = next_pc
    /\ ri' = IF pc' = "raised" THEN ri ELSE IF ri = Len(ready_steps) THEN 1 ELSE ri + 1
    /\ exec_step' = IF pc' = "raised" THEN exec_step ELSE None
    /\ UNCHANGED <<max_steps, iteration, ready_steps, steps_executed, result, tool_runs, sbvars, edvars,
                 passes, on_step_complete, notified>>

-----------------------------------------------------------------------------
(* The plans a planner can build with add_step, and the configurations *)

\* One add_step call of a planner: the tools replan_on_failure tells apart
\* (file_read, shell), a registered tool called without a required parameter
\* (file_write without content) and a tool name that is not registered.  A
\* search step and a sudo-prefixed shell step enter the plan as recovery steps.
ToolCalls ==
    { [tool |-> "file_read", params |-> [path |-> <<"src", "a.txt">>]],
      [tool |-> "shell", params |-> [command |-> <<"ls">>]],
      [tool |-> "file_write", params |-> [path |-> <<"out.txt">>]],
      [tool |-> "deploy", params |-> [target |-> <<"prod">>]] }

\* add_step does not validate depends_on: any ids, present or not
DepChoices == SUBSET (1..(MaxPlanLen + 1))

\* max_steps: a pass, a full retry cycle of one step, and the largest ceiling
Ceilings == {1, DefaultMaxRetries + 1, MaxCeiling}

\* AgenticExecutor.__init__ has run and execute is at line 144
Init ==
    /\ plan = << >>
    /\ max_steps \in Ceilings
    /\ iteration = 0
    /\ pc = "plan"
    /\ ready_steps = << >>
    /\ ri = 1
    /\ exec_step = None
    /\ steps_executed = << >>
    /\ result = None
    /\ tool_runs = 0
    /\ passes = 0
    /\ on_step_complete \in BOOLEAN
    /\ notified = << >>
    /\ NoSandbox
    /\ NoEdit

\* Line 144, self.planner.plan: the planner builds the plan by add_step calls.
\* TaskPlanner.plan is a keyword stand-in for a planning component; the model
\* lets it make any add_step calls.
PlannerAddStep ==
    /\ pc = "plan"
    /\ Len(plan) < MaxPlanLen
    /\ \E c \in ToolCalls, d \in DepChoices : plan' = add_step(plan, c.tool, c.params, d)
    /\ UNCHANGED <<max_steps, iteration, pc, ready_steps, ri, exec_step, steps_executed, result, tool_runs, sbvars, edvars,
                 passes, on_step_complete, notified>>

\* Lines 144-147: plan returns (every _plan_* adds at least one step) and the
\* loop is entered with iteration = 0.
BeginLoop ==
    /\ pc = "plan"
    /\ Len(plan) >= 1
    /\ pc' = "loop"
    /\ UNCHANGED <<plan, max_steps, iteration, ready_steps, ri, exec_step, steps_executed, result, tool_runs, sbvars, edvars,
                 passes, on_step_complete, notified>>

Next == PlannerAddStep \/ BeginLoop \/ LoopExit \/ Stall \/ StartPass \/ ExecuteStep \/ UpdateStep

Spec == Init /\ [][Next]_vars

\* execute runs in one thread that is never suspended for ever: whenever a
\* step of it can be taken, one is taken.
FairSpec == Spec /\ WF_vars(Next)

-----------------------------------------------------------------------------
(* The plan used on its own, as tests/test_planner.py does: steps are added *)
(* by add_step, statuses are assigned, ready steps are completed.           *)

InitPlan ==
    /\ plan = << >>
    /\ max_steps = 0
    /\ iteration = 0
    /\ pc = "plan"
    /\ ready_steps = << >>
    /\ ri = 1
    /\ exec_step = None
    /\ steps_executed = << >>
    /\ result = None
    /\ tool_runs = 0
    /\ NoCallback
    /\ NoSandbox
    /\ NoEdit

\* plan.add_step("shell", {}, "Step n", depends_on=d)
AddStep ==
    /\ pc = "plan"
    /\ Len(plan) < MaxPlanLen
    /\ \E d \in DepChoices : plan' = add_step(plan, "shell", << >>, d)
    /\ UNCHANGED <<max_steps, iteration, pc, ready_steps, ri, exec_step, steps_executed, result, tool_runs, sbvars, edvars,
                 passes, on_step_complete, notified>>

\* plan.steps[i].status = s
SetStatus ==
    /\ pc = "plan"
    /\ \E i \in DOMAIN plan, s \in StepStatus : plan' = [plan EXCEPT ![i].status = s]
    /\ UNCHANGED <<max_steps, iteration, pc, ready_steps, ri, exec_step, steps_executed, result, tool_runs, sbvars, edvars,
                 passes, on_step_complete, notified>>

NextPlan == AddStep \/ SetStatus

SpecPlan == InitPlan /\ [][NextPlan]_vars

\* The plan is built; from here its ready steps are completed.
StartDrain ==
    /\ pc = "plan"
    /\ pc' = "drain"
    /\ UNCHANGED <<plan, max_steps, iteration, ready_steps, ri, exec_step, steps_executed, result, tool_runs, sbvars, edvars,
                 passes, on_step_complete, notified>>

\* ready = plan.get_ready_steps(); some of the returned steps are marked
\* Completed (step.status = StepStatus.COMPLETED); then it is recomputed.
CompleteReady ==
    /\ pc = "drain"
    /\ LET ready == get_ready_steps(plan)
           returned == {ready[a] : a \in DOMAIN ready}
       IN  \E done \in (SUBSET returned) \ {{}} :
             plan' = [i \in DOMAIN plan |->
                        IF i \in done THEN [plan[i] EXCEPT !.status = "completed"] ELSE plan[i]]
    /\ UNCHANGED <<max_steps, iteration, pc, ready_steps, ri, exec_step, steps_executed, result, tool_runs, sbvars, edvars,
                 passes, on_step_complete, notified>>

NextDrain == AddStep \/ StartDrain \/ CompleteReady

\* Completing goes on as long as get_ready_steps returns a step.
SpecDrain == InitPlan /\ [][NextDrain]_vars /\ WF_vars(CompleteReady)

-----------------------------------------------------------------------------
(* The registry used on its own, as tests/test_tools.py does: execute is   *)
(* called with a tool name and keyword arguments.                          *)

\* the names a caller passes: the registered ones and one that is not
ToolNames == RegisteredTools \cup {"deploy"}

\* the keyword arguments a caller passes: any of the required ones
Kwargs == {[key \in keys |-> <<"x">>] : keys \in SUBSET {"path", "content", "command", "pattern"}}

\* result = registry.execute(tool_name, **kwargs); the call and its result
\* are kept in exec_step
RegistryCall ==
    /\ pc = "plan"
    /\ tool_runs < MaxRuns
    /\ \E tool_name \in ToolNames, kwargs \in Kwargs :
          \E d \in registry_execute(tool_name, kwargs) :
             /\ exec_step' = Some([step_id |-> 0, tool |-> tool_name, params |-> kwargs,
                                   result |-> Some(d.result), retries |-> 0])
             /\ tool_runs' = tool_runs + (IF d.invoked THEN 1 ELSE 0)
    /\ UNCHANGED <<plan, max_steps, iteration, pc, ready_steps, ri, steps_executed, result, sbvars, edvars,
                 passes, on_step_complete, notified>>

NextRegistry == RegistryCall

SpecRegistry == InitPlan /\ [][NextRegistry]_vars

-----------------------------------------------------------------------------
(* tools.py: FileReadTool, FileWriteTool; executor.py: edit_file *)

(* Representation.                                                         *)
(*  - A file content, and the old and new content given to edit_file, is   *)
(*    the sequence of its characters; a message is a sequence of pieces.   *)
(*  - disk maps a path to what is there: nothing, a directory, or a file   *)
(*    with its content and whether this process may read and write it.     *)
(*  - registry.tools is the set of names registered; read_allowed and      *)
(*    write_allowed say whether the path given falls under allowed_paths   *)
(*    of FileReadTool and of FileWriteTool (two separate lists).           *)

Missing == [kind |-> "missing", content |-> << >>, readable |-> FALSE, writable |-> FALSE]
Directory == [kind |-> "directory", content |-> << >>, readable |-> TRUE, writable |-> TRUE]
File(content, readable, writable) ==
    [kind |-> "file", content |-> content, readable |-> readable, writable |-> writable]

\* FileReadTool.execute, lines 147-169
file_read(files, allowed, kwargs) ==
    LET path == kwargs.path
    IN  IF path = "" THEN ToolResult("error", << >>, Some(<<"Path is required">>))
        ELSE IF ~allowed
        THEN ToolResult("permission_denied", << >>, Some(<<"Access to ", path, " is not allowed">>))
        ELSE CASE files[path].kind = "missing" ->
                    ToolResult("error", << >>, Some(<<"File not found: ", path>>))
               [] files[path].kind = "directory" ->
                    ToolResult("error", << >>, Some(<<"[Errno 21] Is a directory">>))
               [] files[path].kind = "file" /\ ~files[path].readable ->
                    ToolResult("permission_denied", << >>, Some(<<"Permission denied: ", path>>))
               [] files[path].kind = "file" /\ files[path].readable ->
                    ToolResult("success", files[path].content, None)

\* FileWriteTool.execute with the default mode, lines 202-231: the result and
\* the files afterwards
file_write(files, allowed, kwargs) ==
    LET path == kwargs.path
    IN  IF path = ""
        THEN [result |-> ToolResult("error", << >>, Some(<<"Path is required">>)), files |-> files]
        ELSE IF ~allowed
        THEN [result |-> ToolResult("permission_denied", << >>,
                                    Some(<<"Access to ", path, " is not allowed">>)),
              files |-> files]
        ELSE CASE files[path].kind = "directory" ->
                    [result |-> ToolResult("error", << >>, Some(<<"[Errno 21] Is a directory">>)),
                     files |-> files]
               [] files[path].kind = "file" /\ ~files[path].writable ->
                    [result |-> ToolResult("permission_denied", << >>,
                                           Some(<<"Permission denied: ", path>>)),
                     files |-> files]
               [] files[path].kind = "file" /\ files[path].writable ->
                    [result |-> ToolResult("success", <<"Successfully wrote">>, None),
                     files |-> [files EXCEPT ![path].content = kwargs.content]]
               [] files[path].kind = "missing" ->
                    [result |-> ToolResult("success", <<"Successfully wrote">>, None),
                     files |-> [files EXCEPT ![path] = File(kwargs.content, TRUE, TRUE)]]

\* ToolRegistry.execute (lines 409-419) on a file tool: the result and the
\* files afterwards
registry_execute_file(reg, files, tool_name, kwargs) ==
    IF tool_name \notin reg.tools
    THEN [result |-> ToolResult("error", << >>, Some(<<"Unknown tool: ", tool_name>>)),
          files |-> files]
    ELSE LET validation_error == validate_params(tool_name, kwargs)
         IN  IF validation_error # None
             THEN [result |-> ToolResult("error", << >>, validation_error), files |-> files]
             ELSE IF tool_name = "file_read"
             THEN [result |-> file_read(files, reg.read_allowed, kwargs), files |-> files]
             ELSE file_write(files, reg.write_allowed, kwargs)

\* text with new after each of its characters
RECURSIVE Interleave(_, _)
Interleave(text, new) ==
    IF text = << >> THEN << >> ELSE <<Head(text)>> \o new \o Interleave(Tail(text), new)

\* text.replace(old, new) for a non-empty old: every occurrence, left to
\* right, none overlapping
RECURSIVE ReplaceAll(_, _, _)
ReplaceAll(text, old, new) ==
    IF Len(text) < Len(old) THEN text
    ELSE IF SubSeq(text, 1, Len(old)) = old
         THEN new \o ReplaceAll(SubSeq(text, Len(old) + 1, Len(text)), old, new)
         ELSE <<Head(text)>> \o ReplaceAll(Tail(text), old, new)

\* str.replace: an empty old matches before every character and at the end
Replace(text, old, new) ==
    IF old = << >> THEN new \o Interleave(text, new) ELSE ReplaceAll(text, old, new)

\* the ExecutionStep records of edit_file (lines 319-326, 352-359)
EditStep(step_id, tool, path, res) ==
    [step_id |-> step_id, tool |-> tool, params |-> [path |-> path], result |-> res]

\* the ExecutionResult records of edit_file
EditResult(path, success, steps, error) ==
    [task |-> <<"Edit file: ", path>>, success |-> success, steps |-> steps, error |-> error]

\* mutant of edit_file: the file is written whether or not old_content
\* occurs in it
edit_file_unchecked(reg, files, path, old_content, new_content) ==
    LET read == registry_execute_file(reg, files, "file_read", [path |-> path])
        read_result == read.result
        steps1 == <<EditStep("read", "file_read", path, read_result)>>
    IN  IF read_result.status # "success"
        THEN [result |-> EditResult(path, FALSE, steps1, read_result.error), files |-> files]
        ELSE
        LET updated_content == Replace(read_result.output, old_content, new_content)
            write == registry_execute_file(reg, files, "file_write",
                                           [path |-> path, content |-> updated_content])
            write_result == write.result
            steps2 == Append(steps1, EditStep("write", "file_write", path, write_result))
        IN  [result |-> EditResult(path, write_result.status = "success", steps2,
                                   IF write_result.status # "success" THEN write_result.error
                                   ELSE None),
             files |-> write.files]

\* AgenticExecutor.edit_file, lines 297-367: the result and the files
\* afterwards
edit_file(reg, files, path, old_content, new_content) ==
    LET read == registry_execute_file(reg, files, "file_read", [path |-> path])
        read_result == read.result
        steps1 == <<EditStep("read", "file_read", path, read_result)>>
    IN  IF read_result.status # "success"
        THEN [result |-> EditResult(path, FALSE, steps1, read_result.error), files |-> files]
        ELSE IF ~Contains(old_content, read_result.output)
        THEN [result |-> EditResult(path, FALSE, steps1, Some(<<"Old content not found in file">>)),
              files |-> files]
        ELSE
        LET updated_content == Replace(read_result.output, old_content, new_content)
            write == registry_execute_file(reg, files, "file_write",
                                           [path |-> path, content |-> updated_content])
            write_result == write.result
            steps2 == Append(steps1, EditStep("write", "file_write", path, write_result))
        IN  [result |-> EditResult(path, write_result.status = "success", steps2,
                                   IF write_result.status # "success" THEN write_result.error
                                   ELSE None),
             files |-> write.files]

-----------------------------------------------------------------------------
(* edit_file called on its own, as tests/test_executor.py does: a file is   *)
(* put in place, the allowed paths of the file tools are set, and edit_file *)
(* is called.                                                               *)

\* the path of the file, and the path arguments given to edit_file
DiskPaths == {"f.txt"}
EditPaths == {"", "f.txt"}

\* what is at the path before the first call
DiskEntries ==
    {Missing, Directory} \cup { File(<<"a", "b", "a">>, r, w) : r, w \in BOOLEAN }

\* the old_content and new_content arguments
OldContents == { << >>, <<"a">>, <<"b", "a">>, <<"c">> }
NewContents == { << >>, <<"x">>, <<"a", "a">> }

Registries ==
    { [tools |-> t, read_allowed |-> r, write_allowed |-> w] :
        t \in {RegisteredTools, RegisteredTools \ {"file_read"}}, r, w \in BOOLEAN }

EditsMade == IF edit = None THEN 0 ELSE edit[1].seq

InitEdit ==
    /\ plan = << >>
    /\ max_steps = 0
    /\ iteration = 0
    /\ pc = "edit"
    /\ ready_steps = << >>
    /\ ri = 1
    /\ exec_step = None
    /\ steps_executed = << >>
    /\ result = None
    /\ tool_runs = 0
    /\ NoCallback
    /\ NoSandbox
    /\ disk \in [DiskPaths -> DiskEntries]
    /\ registry \in Registries
    /\ edit = None

\* result = executor.edit_file(path, old_content, new_content)
EditFile ==
    /\ pc = "edit"
    /\ EditsMade < MaxEdits
    /\ \E path \in EditPaths, old_content \in OldContents, new_content \in NewContents :
          LET r == edit_file(registry, disk, path, old_content, new_content)
          IN  /\ disk' = r.files
              /\ edit' = Some([seq |-> EditsMade + 1, path |-> path, old_content |-> old_content,
                               new_content |-> new_content, result |-> r.result])
    /\ UNCHANGED <<exvars, sbvars, registry>>

NextEdit == EditFile

SpecEdit == InitEdit /\ [][NextEdit]_vars

-----------------------------------------------------------------------------
(* The sandbox used on its own, as tests/test_sandbox.py does: a CodeSandbox *)
(* is constructed with a config, acquired and released as a context manager, *)
(* and execute / execute_file are called on it, inside the scope or not.     *)

\* the denylist: the first markers of the default blocked_imports
BlockedImports == << <<"os", ".", "system">>, <<"subprocess">>, <<"socket">> >>

\* the caller's working_dir, when one is configured
WorkingDir == 0

\* the default memory ceiling, and for one config a ceiling of 1 MB, less
\* than any process uses
SandboxConfigs ==
    { SandboxConfig(MaxTimeout, DefaultMaxMemoryMb, MaxStream - 1, BlockedImports, w, c) :
        w \in {None, Some(WorkingDir)}, c \in BOOLEAN }
    \cup { SandboxConfig(MaxTimeout, 1, MaxStream - 1, BlockedImports, None, TRUE) }

\* the code submitted: code with "os" but not "os.system", code with a
\* marker inside a longer word, code with a marker of three pieces
Codes ==
    { <<"import", " ", "os">>,
      <<"import", " ", "subprocess", "32">>,
      <<"import", " ", "os", ";", "os", ".", "system", "(", ")">> }

\* the longest stream a process writes
LongStream == SubSeq(<<"a", "b", "c", "d", "e">>, 1, MaxStream)

ProcessOutputs ==
    { [kind |-> "object", stdout |-> o, stderr |-> e, error |-> x] :
        o \in {<<"a">>, LongStream}, e \in {<< >>, LongStream}, x \in {None, Some(<<"E">>)} }
    \cup { [kind |-> "raw", stdout |-> o, stderr |-> <<"a">>, error |-> None] :
             o \in {<< >>, LongStream} }
    \cup { [kind |-> "value", stdout |-> <<"5">>, stderr |-> << >>, error |-> None] }

NoOutput == [kind |-> "raw", stdout |-> << >>, stderr |-> << >>, error |-> None]

\* the call does not get as far as the environment
NoEnv == [write_ok |-> TRUE, run |-> "none", returncode |-> 0, out |-> NoOutput, elapsed |-> 0]

\* the environments of one execute call that gets past the pre-check, for a
\* sandbox with this config
Envs(config) ==
    { [write_ok |-> FALSE, run |-> "none", returncode |-> 0, out |-> NoOutput, elapsed |-> 0] }
    \cup { [write_ok |-> TRUE, run |-> "oserror", returncode |-> 0, out |-> NoOutput, elapsed |-> e] :
             e \in {0, 1} }
    \cup { [write_ok |-> TRUE, run |-> "timeout", returncode |-> 0, out |-> o,
            elapsed |-> config.timeout_seconds] :
             o \in {NoOutput, [kind |-> "raw", stdout |-> LongStream, stderr |-> <<"a">>, error |-> None]} }
    \cup { [write_ok |-> TRUE, run |-> "exit", returncode |-> c, out |-> o, elapsed |-> e] :
             c \in {0, 1}, o \in ProcessOutputs, e \in 0..(config.timeout_seconds - 1) }

\* the environments that matter to execute(code)
EnvsFor(config, code) ==
    IF check_imports(config.blocked_imports, code) # None THEN {NoEnv} ELSE Envs(config)

\* the paths given to execute_file
Paths ==
    { [kind |-> "missing", name |-> <<"x.py">>, code |-> << >>],
      [kind |-> "directory", name |-> <<"d">>, code |-> << >>],
      [kind |-> "file", name |-> <<"f.py">>, code |-> <<"import", " ", "os">>],
      [kind |-> "file", name |-> <<"g.py">>, code |-> <<"import", " ", "subprocess", "32">>] }

CallsMade == IF last = None THEN 0 ELSE last[1].seq

\* sandbox = CodeSandbox(config); a configured working_dir may exist already
InitSandbox ==
    /\ plan = << >>
    /\ max_steps = 0
    /\ iteration = 0
    /\ pc = "sandbox"
    /\ ready_steps = << >>
    /\ ri = 1
    /\ exec_step = None
    /\ steps_executed = << >>
    /\ result = None
    /\ tool_runs = 0
    /\ NoCallback
    /\ \E config \in SandboxConfigs, there \in BOOLEAN :
          /\ sandbox = CodeSandbox(config)
          /\ fs = [dirs |-> IF config.working_dir # None /\ there THEN {WorkingDir} ELSE {},
                   scripts |-> {}, made |-> 0]
    /\ procs = 0
    /\ sb_pc = "new"
    /\ last = None
    /\ NoEdit

\* with sandbox: ... (__enter__, lines 80-82)
Acquire ==
    /\ sb_pc \in {"new", "released"}
    /\ fs.made < MaxScratch
    /\ LET st == setup(sandbox, fs)
       IN  /\ sandbox' = st.sb
           /\ fs' = st.files
    /\ sb_pc' = "scoped"
    /\ UNCHANGED <<exvars, edvars, procs, last>>

\* the with block is left, normally or by an exception (__exit__, lines
\* 84-85, ignores its arguments)
Release ==
    /\ sb_pc = "scoped"
    /\ fs' = cleanup(sandbox, fs)
    /\ sb_pc' = "released"
    /\ UNCHANGED <<exvars, edvars, sandbox, procs, last>>

\* result = sandbox.execute(code)
SandboxExecute ==
    /\ sb_pc \in {"new", "scoped", "released"}
    /\ CallsMade < MaxCalls
    /\ fs.made < MaxScratch
    /\ \E code \in Codes :
       \E env \in EnvsFor(sandbox.config, code) :
          LET r == execute(sandbox, fs, procs, code, env)
          IN  /\ sandbox' = r.sb
              /\ fs' = r.files
              /\ procs' = r.procs
              /\ last' = Some([seq |-> CallsMade + 1, op |-> "execute", code |-> code,
                               path |-> None, env |-> env, spawned |-> r.spawned,
                               result |-> r.result])
    /\ UNCHANGED <<exvars, edvars, sb_pc>>

\* result = sandbox.execute_file(path)
SandboxExecuteFile ==
    /\ sb_pc \in {"new", "scoped", "released"}
    /\ CallsMade < MaxCalls
    /\ fs.made < MaxScratch
    /\ \E path \in Paths :
       \E env \in (IF path.kind = "file" THEN EnvsFor(sandbox.config, path.code) ELSE {NoEnv}) :
          LET r == execute_file(sandbox, fs, procs, path, env)
          IN  /\ sandbox' = r.sb
              /\ fs' = r.files
              /\ procs' = r.procs
              /\ last' = Some([seq |-> CallsMade + 1, op |-> "execute_file", code |-> path.code,
                               path |-> Some(path.kind), env |-> env, spawned |-> r.spawned,
                               result |-> r.result])
    /\ UNCHANGED <<exvars, edvars, sb_pc>>

NextSandbox == Acquire \/ Release \/ SandboxExecute \/ SandboxExecuteFile

SpecSandbox == InitSandbox /\ [][NextSandbox]_vars

-----------------------------------------------------------------------------
(* The dependency graph of a plan *)

\* the positions of the steps that step i names in depends_on
DepsOf(steps, i) == {j \in DOMAIN steps : steps[j].id \in steps[i].depends_on}

RECURSIVE ReachableIn(_, _, _)
ReachableIn(steps, from, n) ==
    IF n = 0 THEN from
    ELSE ReachableIn(steps, from \cup UNION {DepsOf(steps, j) : j \in from}, n - 1)

\* the steps that step i depends on, directly or through other steps
DepsClosure(steps, i) == ReachableIn(steps, DepsOf(steps, i), Len(steps))

OnCycle(steps, i) == i \in DepsClosure(steps, i)

Acyclic(steps) == \A i \in DOMAIN steps : ~OnCycle(steps, i)

AllDepsResolve(steps) ==
    \A i \in DOMAIN steps : \A d \in steps[i].depends_on : \E j \in DOMAIN steps : steps[j].id = d

Range(seq) == {seq[a] : a \in DOMAIN seq}

-----------------------------------------------------------------------------
(* Claims *)

\* C1: get_ready_steps returns exactly the steps that are Pending and whose
\* every dependency id names a step of the plan with status Completed, in
\* insertion order and without repetition, for every plan and every
\* assignment of statuses.
C1_ReadyExactly ==
    LET ready == get_ready_steps(plan)
    IN  /\ \A a, b \in DOMAIN ready : a < b => ready[a] < ready[b]
        /\ Range(ready) =
             {i \in DOMAIN plan :
                /\ plan[i].status = "pending"
                /\ \A d \in plan[i].depends_on :
                     \E j \in DOMAIN plan : plan[j].id = d /\ plan[j].status = "completed"}

\* C1 witness: in a full plan a step with a dependency is returned.
C1_Witness ==
    /\ Len(plan) = MaxPlanLen
    /\ \E i \in Range(get_ready_steps(plan)) : plan[i].depends_on # {}

\* C3 as stated: from every built plan without a cycle, completing the
\* returned ready steps makes is_complete() true eventually.
C3_AcyclicCompletes ==
    (pc = "drain" /\ Acyclic(plan)) ~> is_complete(plan)

\* C3 amended: the same for plans without a cycle whose every dependency id
\* names a step of the plan.
C3_ResolvedAcyclicCompletes ==
    (pc = "drain" /\ Acyclic(plan) /\ AllDepsResolve(plan)) ~> is_complete(plan)

\* C3 witness: a plan with a dependency edge that was drained to completion.
C3_Witness ==
    /\ pc = "drain"
    /\ Len(plan) = MaxPlanLen
    /\ \E i \in DOMAIN plan : plan[i].depends_on # {}
    /\ Acyclic(plan) /\ AllDepsResolve(plan)
    /\ is_complete(plan)

\* the number of dispatches of the step with this id so far
Dispatches(id) == Cardinality({a \in DOMAIN steps_executed : steps_executed[a].step_id = id})

\* no dispatch of the step with this id has succeeded so far
AllFailed(id) == \A a \in DOMAIN steps_executed : steps_executed[a].step_id = id => ~steps_executed[a].ok

Terminal(step) == step.status \in {"completed", "failed", "skipped"}

\* C2: a step is set to Running only when every dependency it declares names
\* a step of the plan whose status is Completed at that moment.
C2_RunningOnlyAfterDeps ==
    [][\A i \in DOMAIN plan :
         (plan[i].status # "running" /\ plan'[i].status = "running") =>
            \A d \in plan[i].depends_on :
               \E j \in DOMAIN plan : plan[j].id = d /\ plan[j].status = "completed"]_vars

\* C2 witness: a step with a dependency is Running in a retry.
C2_Witness ==
    \E i \in DOMAIN plan :
        plan[i].status = "running" /\ plan[i].depends_on # {} /\ plan[i].retry_count > 0

\* the steps that are not terminal all lie on dependency cycles
OnlyCyclesRemain ==
    /\ ~is_complete(plan)
    /\ \A i \in DOMAIN plan : ~Terminal(plan[i]) => OnCycle(plan, i)

\* C4: a step on a dependency cycle is never returned by get_ready_steps and
\* never dispatched (it stays Pending, no execution record names it); and when
\* the loop head is reached with only such steps left non-terminal, execute
\* leaves the loop in that pass and returns a result with success = false.
C4_CycleNeverRunsAndStalls ==
    /\ [](\A i \in DOMAIN plan :
            OnCycle(plan, i) =>
               /\ i \notin Range(get_ready_steps(plan))
               /\ i \notin Range(ready_steps)
               /\ plan[i].status = "pending"
               /\ Dispatches(plan[i].id) = 0)
    /\ [][(pc = "loop" /\ OnlyCyclesRemain) =>
            (pc' = "done" /\ result' # None /\ ~result'[1].success /\ plan' = plan)]_vars

\* C4 witness: execute returned after completing a step, with a cycle left.
C4_Witness ==
    /\ pc = "done"
    /\ OnlyCyclesRemain
    /\ \E i \in DOMAIN plan : plan[i].status = "completed"
    /\ iteration < max_steps

\* C5: the passes never exceed max_steps; at the loop head with the plan
\* complete or the ceiling reached execute returns without a further pass,
\* with success = false when the plan is incomplete; and execute terminates.
C5_BoundedPassesAndTermination ==
    /\ [](iteration <= max_steps)
    /\ [][(pc = "loop" /\ (is_complete(plan) \/ iteration >= max_steps)) =>
            /\ pc' = "done"
            /\ iteration' = iteration
            /\ result' # None
            /\ (~is_complete(plan) => ~result'[1].success)]_vars
    /\ <>(pc \in {"done", "raised"})

\* C5 witness: execute returned because of the ceiling, with a step still ready.
C5_Witness ==
    /\ pc = "done"
    /\ iteration = max_steps
    /\ max_steps = MaxCeiling
    /\ get_ready_steps(plan) # << >>
    /\ ~result[1].success

\* C6: every step's retry counter is within 0..max_retries.
C6_RetryWithinCeiling ==
    \A i \in DOMAIN plan : 0 <= plan[i].retry_count /\ plan[i].retry_count <= plan[i].max_retries

\* C6 witness: a step is dispatched with its retry counter at the ceiling.
C6_Witness ==
    \E i \in DOMAIN plan :
        /\ plan[i].status = "running"
        /\ plan[i].max_retries > 0
        /\ plan[i].retry_count = plan[i].max_retries

\* the step at position i is not in the middle of a dispatch
Settled(i) == ~(pc = "update" /\ ready_steps[ri] = i)

\* step j is the recovery step replan_on_failure builds for step i
IsRecoveryOf(j, i) ==
    \/ /\ plan[i].tool = "file_read"
       /\ plan[j].tool = "search"
       /\ plan[j].params.pattern = LastComponent(GetParam(plan[i].params, "path", << >>))
    \/ /\ plan[i].tool = "shell"
       /\ plan[j].tool = "shell"
       /\ plan[j].params.command = <<"sudo">> \o GetParam(plan[i].params, "command", << >>)

Substituted(i) == \E j \in DOMAIN plan : j > i /\ IsRecoveryOf(j, i)

\* C7 as stated: for a step with retry ceiling N whose dispatches all failed,
\* after each of the first N failures it is Pending again with one more retry
\* counted, after failure N+1 it is Failed or substituted by a recovery step,
\* it is never dispatched more than N+1 times, and when execute returns
\* without having been cut by the step ceiling it was dispatched N+1 times.
C7_FailingStepRunsNPlusOne ==
    \A i \in DOMAIN plan :
        LET n == Dispatches(plan[i].id)
            N == plan[i].max_retries
        IN  (n > 0 /\ AllFailed(plan[i].id) /\ Settled(i)) =>
               /\ n <= N + 1
               /\ n <= N => (plan[i].status = "pending" /\ plan[i].retry_count = n)
               /\ n = N + 1 => (plan[i].status = "failed" \/ Substituted(i))
               /\ (pc = "done" /\ iteration < max_steps) => n = N + 1

C9_SubstitutedStepIsTerminal ==
    [][(pc = "update" /\ Len(plan') > Len(plan)) =>
          plan'[ready_steps[ri]].status \notin {"pending", "running"}]_vars

\* C10: the result returned has success = true iff every step of the final
\* plan is Completed, and when some step is Failed its error is the error
\* recorded on the first Failed step of the plan.
C10_ResultAggregates ==
    pc = "done" =>
        /\ result # None
        /\ result[1].success = (\A i \in DOMAIN plan : plan[i].status = "completed")
        /\ \A i \in DOMAIN plan :
              (plan[i].status = "failed" /\ \A j \in 1..(i - 1) : plan[j].status # "failed")
                 => result[1].error = plan[i].error

\* C10 witness: execute returned a plan that holds a recovery step and two
\* Failed steps with different errors.
C10_Witness ==
    /\ pc = "done"
    /\ Len(plan) > MaxPlanLen
    /\ \E i, j \in DOMAIN plan :
          i < j /\ plan[i].status = "failed" /\ plan[j].status = "failed"
                /\ plan[i].error # plan[j].error

-----------------------------------------------------------------------------
(* Error propagation *)

\* the dispatches (positions in steps_executed) that failed with the step's
\* retries used up
ExhaustedFailures ==
    {a \in DOMAIN steps_executed :
        /\ ~steps_executed[a].ok
        /\ LET i == get_step(plan, steps_executed[a].step_id)
           IN  steps_executed[a].retries = plan[i].max_retries}

\* C11 as stated: when execute returns after some dispatch failed with the
\* step's retries used up, the result has success = false and an error that
\* is not None and is the message of the first such failure.
C11_ExhaustedFailureSurfaces ==
    (pc = "done" /\ ExhaustedFailures # {}) =>
        LET first == CHOOSE a \in ExhaustedFailures : \A b \in ExhaustedFailures : a <= b
        IN  /\ ~result[1].success
            /\ result[1].error # None
            /\ result[1].error = steps_executed[first].error

\* C12 as stated: no failure leaves execute as an exception, whatever the
\* outcome of a dispatch (error message present or None) and the retry state.
C12_FailuresNeverEscape == pc # "raised"

\* the dispatch of this step is rejected by ToolRegistry.execute before any
\* tool runs: the tool is not registered or a required parameter is missing
ValidationError(step) ==
    \/ step.tool \notin RegisteredTools
    \/ validate_params(step.tool, step.params) # None

\* C13 as stated: a step whose dispatch fails with a validation error is
\* dispatched at most once and its retry counter stays 0.
C13_ValidationErrorNotRetried ==
    \A i \in DOMAIN plan :
        ValidationError(plan[i]) => (Dispatches(plan[i].id) <= 1 /\ plan[i].retry_count = 0)

-----------------------------------------------------------------------------
(* Registry *)

\* the call names a registered tool and leaves out one of its required parameters
MissingRequired(tool_name, kwargs) ==
    /\ tool_name \in RegisteredTools
    /\ \E a \in DOMAIN Parameters(tool_name) :
          Parameters(tool_name)[a].required /\ Parameters(tool_name)[a].name \notin DOMAIN kwargs

\* C14: ToolRegistry.execute returns status error with an "Unknown tool"
\* message for a name that is not registered, and status error for a
\* registered tool called without a required parameter; in both cases no
\* tool's execute runs.
C14_RegistryFailsClosed ==
    [][LET call == exec_step'[1]
           res == call.result[1]
       IN  /\ call.tool \notin RegisteredTools =>
                /\ res.status = "error"
                /\ res.error # None
                /\ Contains(<<"Unknown", "tool">>, res.error[1])
                /\ tool_runs' = tool_runs
           /\ MissingRequired(call.tool, call.params) =>
                /\ res.status = "error"
                /\ tool_runs' = tool_runs]_vars

\* C14 witness: after a tool has run, a call of a registered tool without a
\* required parameter was rejected.
C14_Witness ==
    /\ exec_step # None
    /\ tool_runs > 0
    /\ MissingRequired(exec_step[1].tool, exec_step[1].params)
    /\ exec_step[1].result[1].status = "error"

-----------------------------------------------------------------------------
(* Recovery *)

\* execute is at line 170: the dispatch of the current step did not succeed
DispatchFailed ==
    /\ pc = "update"
    /\ ~(exec_step[1].result # None /\ exec_step[1].result[1].status = "success")

\* the error execute passes to replan_on_failure (line 172)
ErrorMsg == exec_step[1].result[1].error

\* C15: replan_on_failure invoked on a file_read step with its retries used
\* up and an error text containing "not found" appends exactly one step, of
\* tool search, without dependencies, and returns it; the step it was invoked
\* on and the steps before it stay as they were.
C15_NotFoundAddsSearch ==
    [][LET k == ready_steps[ri] IN
       (/\ DispatchFailed
        /\ plan[k].tool = "file_read"
        /\ plan[k].retry_count >= plan[k].max_retries
        /\ ErrorMsg # None
        /\ Contains(<<"not", "found">>, Lower(ErrorMsg[1])))
       => LET re == replan_on_failure(plan, k, ErrorMsg) IN
          /\ plan' = re.steps
          /\ Len(plan') = Len(plan) + 1
          /\ SubSeq(plan', 1, Len(plan)) = plan
          /\ plan'[Len(plan')].tool = "search"
          /\ plan'[Len(plan')].depends_on = {}
          /\ plan'[Len(plan')].status = "pending"
          /\ re.recovery = Len(plan')]_vars

\* C15 witness: a search step appended for a file_read step has completed.
C15_Witness ==
    \E i, j \in DOMAIN plan :
        /\ i < j
        /\ plan[i].tool = "file_read" /\ plan[i].retry_count = plan[i].max_retries
        /\ plan[j].tool = "search" /\ plan[j].status = "completed"

\* C16: replan_on_failure invoked on a step with retries left returns that
\* step with one more retry counted and status Pending, leaves its id, tool,
\* params and depends_on as they were, and appends no step.
C16_RetryFrame ==
    [][LET k == ready_steps[ri] IN
       (DispatchFailed /\ plan[k].retry_count < plan[k].max_retries)
       => LET re == replan_on_failure(plan, k, ErrorMsg) IN
          /\ plan' = re.steps
          /\ re.recovery = k
          /\ Len(plan') = Len(plan)
          /\ plan'[k].retry_count = plan[k].retry_count + 1
          /\ plan'[k].status = "pending"
          /\ plan'[k].id = plan[k].id
          /\ plan'[k].tool = plan[k].tool
          /\ plan'[k].params = plan[k].params
          /\ plan'[k].depends_on = plan[k].depends_on]_vars

\* C16 witness: a step with a dependency is Pending for its last retry.
C16_Witness ==
    \E i \in DOMAIN plan :
        /\ plan[i].status = "pending"
        /\ plan[i].retry_count = plan[i].max_retries
        /\ plan[i].depends_on # {}

\* C17: a call of replan_on_failure leaves every step other than the one it
\* is invoked on as it was, removes and reorders nothing, and either changes
\* only the retry counter and status of that step (no step appended) or
\* appends one step at the end and leaves that step alone.
C17_ReplanOnlyAppends ==
    [][LET k == ready_steps[ri] IN
       DispatchFailed
       => LET re == replan_on_failure(plan, k, ErrorMsg) IN
          /\ \A i \in DOMAIN plan : i # k => (re.steps[i] = plan[i] /\ plan'[i] = plan[i])
          /\ Len(plan') = Len(re.steps)
          /\ \/ /\ Len(re.steps) = Len(plan)
                /\ re.steps[k] = [plan[k] EXCEPT !.retry_count = re.steps[k].retry_count,
                                                  !.status = re.steps[k].status]
             \/ /\ Len(re.steps) = Len(plan) + 1
                /\ re.steps[k] = plan[k]
                /\ plan'[k] = plan[k]]_vars

\* C17 witness: a step was appended to a plan that holds a Completed step and
\* a step in a retry.
C17_Witness ==
    /\ Len(plan) > MaxPlanLen
    /\ \E i, j \in 1..MaxPlanLen :
          /\ plan[i].status = "completed"
          /\ plan[j].status = "running" /\ plan[j].retry_count = plan[j].max_retries
    /\ plan[Len(plan)].status = "pending"

\* the step is a privilege-escalated shell step: its command begins with sudo
IsSudo(step) ==
    /\ step.tool = "shell"
    /\ "command" \in DOMAIN step.params
    /\ Len(step.params.command) > 0
    /\ step.params.command[1] = "sudo"

SudoSteps == {j \in DOMAIN plan : IsSudo(plan[j])}

\* the shell steps that are not escalated and have failed with their retries used up
ExhaustedShellSteps ==
    {i \in DOMAIN plan :
        /\ plan[i].tool = "shell" /\ ~IsSudo(plan[i])
        /\ \E a \in ExhaustedFailures : steps_executed[a].step_id = plan[i].id}

\* C18: an escalated (sudo) step is appended only at the failure of a shell
\* step that is not itself escalated, with a permission-denied error and the
\* retries used up, one step at a time; no step is dispatched again after
\* that failure, so each such step gets at most one escalated step over the
\* run; and no escalated step is escalated again.
C18_OneEscalationShellOnly ==
    /\ [][\A j \in DOMAIN plan' :
             (j \notin DOMAIN plan /\ IsSudo(plan'[j])) =>
                LET k == ready_steps[ri] IN
                /\ DispatchFailed
                /\ plan[k].tool = "shell"
                /\ ~IsSudo(plan[k])
                /\ plan[k].retry_count = plan[k].max_retries
                /\ ErrorMsg # None
                /\ Contains(<<"permission", "denied">>, Lower(ErrorMsg[1]))
                /\ plan'[j].params.command = <<"sudo">> \o plan[k].params.command
                /\ Len(plan') = Len(plan) + 1]_vars
    /\ [](\A i \in DOMAIN plan : Dispatches(plan[i].id) <= plan[i].max_retries + 1)
    /\ [](Cardinality(SudoSteps) <= Cardinality(ExhaustedShellSteps))
    /\ [](\A j \in SudoSteps : ~IsSudo([plan[j] EXCEPT !.params.command = Tail(@)]))

\* C18 witness: execute returned after the one escalated step failed with a
\* permission-denied error itself.
C18_Witness ==
    /\ pc = "done"
    /\ Cardinality(SudoSteps) = 1
    /\ \E j \in SudoSteps :
          /\ plan[j].status = "failed"
          /\ plan[j].error = Some(<<"Permission", "denied">>)
    /\ \E i \in DOMAIN plan :
          plan[i].tool = "file_read" /\ plan[i].error = Some(<<"Permission", "denied">>)

-----------------------------------------------------------------------------
(* Blocked steps *)

\* C19: as long as a step is not Completed, every step that depends on it,
\* directly or through other steps, is Pending and has never been dispatched;
\* in particular this is so in the plan execute returns.
C19_DependentsStayBlocked ==
    \A i, j \in DOMAIN plan :
        (i \in DepsClosure(plan, j) /\ plan[i].status # "completed") =>
            /\ plan[j].status = "pending"
            /\ Dispatches(plan[j].id) = 0
            /\ j \notin Range(get_ready_steps(plan))

\* C19 witness: execute returned with a Failed step and a step depending
\* on it, after other steps ran.
C19_Witness ==
    /\ pc = "done"
    /\ \E i, j \in DOMAIN plan :
          /\ i # j
          /\ plan[i].id \in plan[j].depends_on
          /\ plan[i].status = "failed"
          /\ plan[j].status = "pending"
    /\ Len(steps_executed) = DefaultMaxRetries + 1

-----------------------------------------------------------------------------
(* Plan structure *)

\* C21: the ids of the steps of a plan are pairwise distinct after any
\* add_step calls and recovery appends, and a step is appended without a
\* change to any field of the steps already in the plan.
C21_UniqueIdsAppendOnly ==
    /\ [](\A i, j \in DOMAIN plan : i # j => plan[i].id # plan[j].id)
    /\ [][Len(plan') # Len(plan) =>
            (Len(plan') = Len(plan) + 1 /\ SubSeq(plan', 1, Len(plan)) = plan)]_vars

\* C21 witness: two recovery steps were appended to a full plan and the
\* second has completed.
C21_Witness ==
    /\ Len(plan) = MaxPlanLen + 2
    /\ plan[Len(plan)].status = "completed"

-----------------------------------------------------------------------------
(* Sandbox *)

\* the last call reached CodeSandbox.execute with this code
ReachedExecute(call) == call.path \in {None, Some("file")}

\* the code contains a marker of the denylist as a run of its pieces
Denylisted(config, code) ==
    \E a \in DOMAIN config.blocked_imports : Contains(config.blocked_imports[a], code)

\* C23: execute on code that contains a denylisted marker returns status
\* error with execution_time 0 and empty stdout, spawns no process, writes no
\* script file and creates no directory.
C23_DenylistedCodeRejected ==
    [][(last' # last /\ ReachedExecute(last'[1]) /\ Denylisted(sandbox.config, last'[1].code)) =>
          /\ last'[1].result.status = "error"
          /\ last'[1].result.execution_time = 0
          /\ last'[1].result.stdout = << >>
          /\ ~last'[1].spawned
          /\ procs' = procs
          /\ fs' = fs
          /\ sandbox'.temp_dir = sandbox.temp_dir]_vars

\* C23 witness: after a call that spawned a process, code with a marker
\* inside a longer word was rejected.
C23_Witness ==
    /\ last # None
    /\ last[1].op = "execute"
    /\ last[1].seq = MaxCalls
    /\ procs > 0
    /\ last[1].code = <<"import", " ", "subprocess", "32">>
    /\ last[1].result.status = "error"
    /\ ~last[1].spawned

\* C24: when the spawned process exceeds the configured timeout, execute
\* returns status timeout with empty stdout, a stderr that says so, and
\* execution_time equal to timeout_seconds; nothing the process wrote is in
\* the result.
C24_TimeoutResult ==
    [][(last' # last /\ last'[1].spawned /\ last'[1].env.run = "timeout") =>
          /\ last'[1].result.status = "timeout"
          /\ last'[1].result.stdout = << >>
          /\ last'[1].result.stderr =
                <<"Execution timed out after ", NumStr(sandbox.config.timeout_seconds), "s">>
          /\ last'[1].result.execution_time = sandbox.config.timeout_seconds
          /\ sandbox.config.timeout_seconds > 0]_vars

\* C24 witness: inside the scope, the second process spawned timed out
\* after it had written on both streams.
C24_Witness ==
    /\ sb_pc = "scoped"
    /\ procs = MaxCalls
    /\ last # None
    /\ last[1].spawned
    /\ last[1].env.out.stdout # << >> /\ last[1].env.out.stderr # << >>
    /\ last[1].result.status = "timeout"

\* C25: when the spawned process exits before the timeout, execute returns
\* status completed if the exit code is zero and status error otherwise,
\* whatever the process wrote on its streams.
C25_StatusByExitCode ==
    [][(last' # last /\ last'[1].spawned /\ last'[1].env.run = "exit") =>
          last'[1].result.status =
              (IF last'[1].env.returncode = 0 THEN "completed" ELSE "error")]_vars

\* the process of the call exited before the timeout and execute read its
\* output as the wrapper's object or as text that is not JSON
ExitedAndParsed(call) ==
    call.spawned /\ call.env.run = "exit" /\ call.env.out.kind \in {"object", "raw"}

\* the two streams execute captured from what the process wrote
CapturedStdout(out) == out.stdout
CapturedStderr(out) ==
    IF out.kind = "object" /\ out.error # None THEN out.stderr \o out.error[1] ELSE out.stderr

\* the stream returned is the stream captured, cut to the ceiling and marked
\* when it is over the ceiling, and within the ceiling plus the marker
CutToCeiling(returned, captured, ceiling) ==
    /\ StrLen(returned) <= ceiling + StrLen(TruncationMarker)
    /\ StrLen(captured) <= ceiling => returned = captured
    /\ StrLen(captured) > ceiling =>
          /\ Len(returned) = ceiling + 1
          /\ \A i \in 1..ceiling : returned[i] = captured[i]
          /\ returned[ceiling + 1] = "\n[OUTPUT TRUNCATED]"

\* C26 as stated: for every result execute returns, stdout and stderr are no
\* longer than max_output_bytes plus the length of the truncation marker.
C26_EveryResultBounded ==
    [][(last' # last /\ ReachedExecute(last'[1])) =>
          /\ StrLen(last'[1].result.stdout) <=
                 sandbox.config.max_output_bytes + StrLen(TruncationMarker)
          /\ StrLen(last'[1].result.stderr) <=
                 sandbox.config.max_output_bytes + StrLen(TruncationMarker)]_vars

\* C26 amended: when the process exited before the timeout and its output
\* was read, each of stdout and stderr is the captured stream unchanged if it
\* is within max_output_bytes, and its first max_output_bytes characters
\* followed by the marker otherwise; the messages execute writes itself
\* (blocked import, failed write, timeout, exception) are not cut.
C26_CapturedStreamsCut ==
    [][(last' # last /\ ExitedAndParsed(last'[1])) =>
          /\ CutToCeiling(last'[1].result.stdout, CapturedStdout(last'[1].env.out),
                          sandbox.config.max_output_bytes)
          /\ CutToCeiling(last'[1].result.stderr, CapturedStderr(last'[1].env.out),
                          sandbox.config.max_output_bytes)]_vars

\* C26 witness: a call returned a stdout that was cut and marked and a
\* stderr, made of the wrapper's error field only, that was within the
\* ceiling and came back unchanged.
C26_Witness ==
    /\ last # None
    /\ ExitedAndParsed(last[1])
    /\ StrLen(last[1].env.out.stdout) > sandbox.config.max_output_bytes
    /\ last[1].result.stdout =
          SubSeq(last[1].env.out.stdout, 1, sandbox.config.max_output_bytes) \o TruncationMarker
    /\ last[1].env.out.stderr = << >>
    /\ last[1].result.stderr = <<"E">>

\* the directories made by tempfile.mkdtemp that exist
ScratchDirs(files) == { d \in files.dirs : d # WorkingDir }

\* C27: for a sandbox configured without a working_dir, no scratch
\* directory it created exists once it has been released, whatever happened
\* inside the scope and whatever the configuration.
C27_ScratchGoneAfterRelease ==
    [][(sb_pc = "scoped" /\ sb_pc' = "released" /\ sandbox.config.working_dir = None) =>
          ScratchDirs(fs') = {}]_vars

\* C28: a working_dir given by the caller is never removed by the sandbox:
\* it exists from the acquire on, through any execute calls and after the
\* release, and no step removes it, whatever cleanup_on_exit is.
C28_WorkingDirKept ==
    /\ []((sandbox.config.working_dir # None /\ sb_pc \in {"scoped", "released"}) =>
             sandbox.config.working_dir[1] \in fs.dirs)
    /\ [][(sandbox.config.working_dir # None /\ sandbox.config.working_dir[1] \in fs.dirs) =>
             sandbox.config.working_dir[1] \in fs'.dirs]_vars

\* C28 witness: a sandbox with a working_dir and cleanup_on_exit set was
\* released after two processes ran in the directory, and the directory
\* and the script written in it are still there.
C28_Witness ==
    /\ sb_pc = "released"
    /\ sandbox.config.working_dir = Some(WorkingDir)
    /\ sandbox.config.cleanup_on_exit
    /\ procs = MaxCalls
    /\ WorkingDir \in fs.dirs
    /\ WorkingDir \in fs.scripts

\* the call was execute_file on a path of this kind
FileCall(call, kind) == call.op = "execute_file" /\ call.path = Some(kind)

\* the message says "File not found: " and then the path
SaysNotFound(stderr) == stderr # << >> /\ Head(stderr) = "File not found: "

\* the call returned an error without a process, a directory or a script
\* file being made
RejectedUntouched(call) ==
    /\ call.result.status = "error"
    /\ ~call.spawned
    /\ UNCHANGED <<sandbox, fs, procs>>

\* the call did to the sandbox and returned what execute does on this code
\* in the same environment
SameAsExecute(call) ==
    LET r == execute(sandbox, fs, procs, call.code, call.env)
    IN  /\ call.result = r.result
        /\ call.spawned = r.spawned
        /\ sandbox' = r.sb /\ fs' = r.files /\ procs' = r.procs

PrepareOrLaunchFailed(config, call) ==
    ReachedExecute(call) /\ ~Denylisted(config, call.code) /\ ~call.spawned

\* C30: when the script file cannot be written or the process cannot be
\* started, execute returns status error with a message and execution_time
\* 0.
C30_FailedLaunchUntimed ==
    [][(last' # last /\ PrepareOrLaunchFailed(sandbox.config, last'[1])) =>
          /\ last'[1].result.status = "error"
          /\ last'[1].result.stderr # << >>
          /\ last'[1].result.execution_time = 0]_vars

\* C31: every SandboxResult returned by execute or execute_file has
\* memory_used_mb 0 and a status among completed, error and timeout,
\* whatever max_memory_mb is configured.
C31_MemoryUnmeasured ==
    last # None =>
       /\ last[1].result.memory_used_mb = 0
       /\ last[1].result.status \in {"completed", "error", "timeout"}

\* C31 witness: under a memory ceiling of 1 MB a process ran to the end and
\* the call returned completed.
C31_Witness ==
    /\ last # None
    /\ sandbox.config.max_memory_mb < DefaultMaxMemoryMb
    /\ last[1].seq = MaxCalls
    /\ last[1].spawned
    /\ last[1].result.status = "completed"
    /\ last[1].result.memory_used_mb = 0

-----------------------------------------------------------------------------
(* edit_file *)

\* the read step of the call failed
ReadFailed(call) == call.result.steps[1].result.status # "success"

\* the steps list of the call holds the read step and nothing else
OnlyReadStep(call) ==
    /\ Len(call.result.steps) = 1
    /\ call.result.steps[1].step_id = "read"
    /\ call.result.steps[1].tool = "file_read"

\* C32: edit_file writes nothing when the read step fails or when
\* old_content does not occur in the file: it returns success = false (with
\* the error "Old content not found in file" in the second case), its steps
\* list holds the read step only, and the file is as it was.
C32_NoWriteWithoutMatch ==
    [][(edit' # edit) =>
          /\ ReadFailed(edit'[1]) =>
                /\ ~edit'[1].result.success
                /\ OnlyReadStep(edit'[1])
                /\ disk' = disk
          /\ (~ReadFailed(edit'[1])
                /\ ~Contains(edit'[1].old_content, disk[edit'[1].path].content)) =>
                /\ ~edit'[1].result.success
                /\ edit'[1].result.error = Some(<<"Old content not found in file">>)
                /\ OnlyReadStep(edit'[1])
                /\ disk' = disk]_vars

\* C32 witness: after an edit that changed the file, a second edit whose
\* old_content is no longer in the file returned the error and left the
\* file as the first edit made it.
C32_Witness ==
    /\ edit # None
    /\ edit[1].seq = MaxEdits
    /\ edit[1].path = "f.txt"
    /\ edit[1].old_content = <<"b", "a">>
    /\ disk["f.txt"].kind = "file"
    /\ disk["f.txt"].content = <<"a", "x">>
    /\ ~edit[1].result.success
    /\ edit[1].result.error = Some(<<"Old content not found in file">>)

-----------------------------------------------------------------------------
(* The passes of execute *)

\* execute left the loop by the break at line 156: the last ready set was
\* empty
EndedOnEmptyReadySet == pc = "done" /\ ready_steps = << >>

\* C33 as stated: the iteration count execute reports equals the number of
\* passes in which a ready set was dispatched.
C33_IterationsAreDispatchingPasses ==
    pc = "done" => result[1].iterations = passes

\* C33 amended: the iteration count goes up by one at the start of each
\* pass of the while loop and not while the steps of a pass are dispatched,
\* however many they are; the count reported is the number of passes in
\* which a ready set was dispatched, plus one when the loop was left on an
\* empty ready set (that last pass is counted and dispatches nothing).
C33_OncePerPass ==
    /\ [](pc = "done" =>
            result[1].iterations = passes + (IF EndedOnEmptyReadySet THEN 1 ELSE 0))
    /\ [][passes' # passes => iteration' = iteration + 1]_vars
    /\ [][(pc = "for" \/ pc = "update") => iteration' = iteration]_vars

\* C33 witness: execute returned after two passes or more, one of which
\* dispatched more than one step, and then a pass that found no step ready.
C33_Witness ==
    /\ EndedOnEmptyReadySet
    /\ passes >= 2
    /\ Len(steps_executed) > passes
    /\ result[1].iterations = passes + 1

\* the records the callback received, in the order of the calls
Received == [i \in DOMAIN notified |-> notified[i].exec_step]

\* C34: with a callback installed, on_step_complete is called once per
\* dispatch, in dispatch order: the records it has received are the records
\* in steps_executed at every moment, so they are the steps list of the
\* result when execute returns; at each call the dispatched plan step has
\* status Running.  With no callback installed nothing is called.
C34_CallbackPerDispatch ==
    /\ on_step_complete => Received = steps_executed
    /\ (on_step_complete /\ pc = "done") => Received = result[1].steps
    /\ \A i \in DOMAIN notified : notified[i].status = "running"
    /\ ~on_step_complete => notified = << >>

\* C34 witness: execute returned after the callback was called for a
\* dispatch that succeeded and, later, for the retry of a step that failed.
C34_Witness ==
    /\ pc = "done"
    /\ on_step_complete
    /\ Len(notified) >= 3
    /\ \E i, j \in DOMAIN notified :
          /\ i < j
          /\ notified[i].exec_step.ok
          /\ ~notified[j].exec_step.ok /\ notified[j].exec_step.retries > 0

-----------------------------------------------------------------------------
(* Sandbox: the output of the process *)

\* C35: execute tolerates every form of process output: when the process
\* exited and its standard output is the wrapper's object, the stdout and
\* stderr fields of the object are used; when it is anything else, the raw
\* stdout and stderr are returned (cut to the ceiling like any stream); and
\* the call returns a SandboxResult in every case.
C35_AnyOutputTolerated ==
    [][(last' # last /\ last'[1].spawned /\ last'[1].env.run = "exit") =>
          /\ last'[1].result.status \in {"completed", "error"}
          /\ last'[1].env.out.kind = "object" =>
                /\ CutToCeiling(last'[1].result.stdout, last'[1].env.out.stdout,
                                sandbox.config.max_output_bytes)
                /\ CutToCeiling(last'[1].result.stderr, CapturedStderr(last'[1].env.out),
                                sandbox.config.max_output_bytes)
          /\ last'[1].env.out.kind # "object" =>
                /\ CutToCeiling(last'[1].result.stdout, last'[1].env.out.stdout,
                                sandbox.config.max_output_bytes)
                /\ CutToCeiling(last'[1].result.stderr, last'[1].env.out.stderr,
                                sandbox.config.max_output_bytes)]_vars

-----------------------------------------------------------------------------
(* Steps during execute *)

\* the steps the for loop of the current pass has still to dispatch
ToDispatch ==
    IF pc = "for" THEN { ready_steps[i] : i \in ri..Len(ready_steps) }
    ELSE IF pc = "update" THEN { ready_steps[i] : i \in (ri + 1)..Len(ready_steps) }
    ELSE {}

\* C36: during execute, Completed and Failed are absorbing: a step with
\* one of these statuses keeps its status, result and error (and the rest of
\* its fields) for the rest of the run, and is not among the steps a pass
\* dispatches.
C36_TerminalAbsorbing ==
    /\ [](\A k \in DOMAIN plan :
             plan[k].status \in {"completed", "failed"} =>
                /\ k \notin ToDispatch
                /\ (pc = "loop" /\ loop_condition(plan, iteration, max_steps)) =>
                      \A i \in DOMAIN get_ready_steps(plan) : get_ready_steps(plan)[i] # k)
    /\ [][\A k \in DOMAIN plan :
             plan[k].status \in {"completed", "failed"} =>
                k \in DOMAIN plan' /\ plan'[k] = plan[k]]_vars

\* C36 witness: execute returned with a step Failed after its retries and,
\* dispatched in a pass after that failure, a step Completed.
C36_Witness ==
    /\ pc = "done"
    /\ \E j, k \in DOMAIN plan :
          /\ plan[j].status = "failed" /\ plan[j].retry_count = DefaultMaxRetries
          /\ plan[k].status = "completed"
          /\ \E a, b \in DOMAIN steps_executed :
                /\ a < b
                /\ steps_executed[a].step_id = plan[j].id
                /\ steps_executed[a].retries = DefaultMaxRetries
                /\ steps_executed[b].step_id = plan[k].id /\ steps_executed[b].ok

\* the steps the for loop of the current pass has dispatched
Dispatched ==
    IF pc = "for" THEN { ready_steps[i] : i \in 1..(ri - 1) }
    ELSE IF pc = "update" THEN { ready_steps[i] : i \in 1..ri }
    ELSE {}

\* step k of the plan after the step is Pending and was not before: it was
\* reset by a retry, or appended as a recovery step
BecamePending(k) ==
    /\ plan'[k].status = "pending"
    /\ k \in DOMAIN plan => plan[k].status # "pending"

\* C37: within one pass of execute each step is dispatched at most once; a
\* step reset to Pending by a retry and a recovery step appended during the
\* pass are not dispatched in that pass, so the dispatch made with
\* retry_count r is made in pass r + 1 at the earliest and every retry uses
\* one unit of max_steps.
C37_OncePerPass ==
    /\ []((pc = "for" \/ pc = "update") =>
            \A i, j \in DOMAIN ready_steps : ready_steps[i] = ready_steps[j] => i = j)
    /\ [][(pc = "for" /\ pc' = "update") =>
            /\ ready_steps[ri] \notin Dispatched
            /\ steps_executed'[Len(steps_executed')].retries + 1 <= iteration
            /\ iteration <= max_steps]_vars
    /\ [][(pc = "update") =>
            /\ pc' \in {"for", "update"} => ready_steps' = ready_steps
            /\ \A k \in DOMAIN plan' : BecamePending(k) => k \notin ToDispatch]_vars

\* C37 witness: in a pass of two ready steps the first failed, was reset to
\* Pending by a retry, and the second is about to be dispatched.
C37_Witness ==
    /\ pc = "for"
    /\ ri = 2
    /\ plan[ready_steps[1]].status = "pending"
    /\ plan[ready_steps[1]].retry_count >= 1
    /\ plan[ready_steps[2]].status = "pending"

-----------------------------------------------------------------------------
(* Growth of the plan *)

\* the recovery steps of the plan: search steps and sudo-prefixed shell
\* steps (the planner of Spec adds neither)
RecoverySteps == {j \in DOMAIN plan : plan[j].tool = "search" \/ IsSudo(plan[j])}

\* the steps the planner put in the plan
InitialSteps == DOMAIN plan \ RecoverySteps

\* the steps replaced by a recovery step: left Running by the update (the
\* step whose update is under way, or was cut by an exception, is not one)
ReplacedSteps ==
    {i \in DOMAIN plan :
        /\ plan[i].status = "running"
        /\ ~((pc = "update" \/ pc = "raised") /\ ready_steps[ri] = i)}

\* C38: recovery cannot grow the plan without bound: every recovery step
\* stands for one step of the initial plan, a different one each, which is
\* never dispatched again; the failure of a recovery step appends nothing;
\* so the plan never has more than twice the steps of the initial plan.
C38_RecoveryBounded ==
    /\ [](pc # "plan" =>
            /\ Cardinality(RecoverySteps) = Cardinality(ReplacedSteps)
            /\ ReplacedSteps \subseteq InitialSteps
            /\ Len(plan) <= 2 * Cardinality(InitialSteps))
    /\ [][(pc # "plan" /\ Len(plan') # Len(plan)) =>
            /\ pc = "update"
            /\ Len(plan') = Len(plan) + 1
            /\ ready_steps[ri] \in InitialSteps
            /\ plan'[ready_steps[ri]].status = "running"]_vars

\* C38 witness: execute returned a plan of twice the initial length, in
\* which a search step failed for good with a not-found error and a sudo
\* step with a permission error, and nothing was appended for them.
C38_Witness ==
    /\ pc = "done"
    /\ Len(plan) = 2 * MaxPlanLen
    /\ Cardinality(RecoverySteps) = MaxPlanLen
    /\ \E j \in SudoSteps :
          plan[j].status = "failed" /\ plan[j].error = Some(<<"Permission", "denied">>)
    /\ \E j \in DOMAIN plan :
          /\ plan[j].tool = "search"
          /\ plan[j].status = "failed" /\ plan[j].error = Some(<<"File", "not", "found">>)

-----------------------------------------------------------------------------
(* Sandbox: calls after the release *)

\* the call was refused for want of a directory to write the script in:
\* error, no process, no directory made
WriteRefused(call) ==
    /\ call.result.status = "error"
    /\ ~call.spawned
    /\ procs' = procs
    /\ fs'.dirs = fs.dirs /\ fs'.made = fs.made
    /\ ~Denylisted(sandbox.config, call.code) =>
          (call.result.stderr # << >> /\ Head(call.result.stderr) = "Failed to write script: ")

\* C39 as stated: after the release of a sandbox that made its own scratch
\* directory, an execute call on it makes no directory, spawns no process
\* and returns status error (the script cannot be written).
C39_ExecuteAfterReleaseRefused ==
    [][(last' # last /\ ReachedExecute(last'[1]) /\ sb_pc = "released"
          /\ sandbox.config.working_dir = None) =>
          WriteRefused(last'[1])]_vars

\* C39 amended: the same for a sandbox with cleanup_on_exit set, whose
\* release removed the directory; with cleanup_on_exit unset the directory
\* is still there after the release and execute runs the code in it.
C39_ExecuteAfterCleanupRefused ==
    [][(last' # last /\ ReachedExecute(last'[1]) /\ sb_pc = "released"
          /\ sandbox.config.working_dir = None) =>
          /\ sandbox.config.cleanup_on_exit => WriteRefused(last'[1])
          /\ (~sandbox.config.cleanup_on_exit /\ last'[1].env.write_ok
                /\ last'[1].env.run \in {"exit", "timeout"}) =>
                (last'[1].spawned /\ fs'.dirs = fs.dirs)]_vars

\* C39 witness: a process ran inside the scope, the sandbox was released and
\* its directory removed, and a second execute call was refused.
C39_Witness ==
    /\ sb_pc = "released"
    /\ sandbox.config.working_dir = None
    /\ sandbox.config.cleanup_on_exit
    /\ ScratchDirs(fs) = {}
    /\ procs = 1
    /\ last # None
    /\ last[1].seq = MaxCalls
    /\ last[1].op = "execute"
    /\ ~last[1].spawned
    /\ last[1].result.stderr # << >>
    /\ Head(last[1].result.stderr) = "Failed to write script: "

====
